---- MODULE Spec2Model ----
(***************************************************************************)
(* Model of the LightBox animation engine (src/CosmicLED.py): the render   *)
(* loop of CosmicLED.run, its shutdown path CosmicLED.cleanup, and the     *)
(* control-surface calls switch_program and update_config, which run on    *)
(* the web thread concurrently with the render loop.  Further             *)
(* specifications cover the geometry fields of update_config (GeoSpec),   *)
(* the coordinate mapper of the Config object (MapSpec) and the colour    *)
(* functions (ColourSpec), the palette (PaletteSpec), load_programs step   *)
(* by step (DiscoverySpec), the stats-writer thread (StatsSpec) and the    *)
(* frame-time window of the fps statistic (FpsSpec).                       *)
(***************************************************************************)
EXTENDS Integers, Sequences, FiniteSets, TLC

VARIABLES
    config,             \* self.config: the attributes update_config can set
    running,            \* self.running
    current_program,    \* self.current_program
    programs,           \* keys of self.programs
    stats,              \* self.stats
    pixels,             \* self.pixels: the pixel buffer of the strip
    brightness,         \* self.pixels.brightness
    sink,               \* the strip as hardware: last frame shown, released
    pc,                 \* position of the main thread in __init__/run/cleanup
    active,             \* the pattern function fetched at line 150
    px,                 \* loop index i of the pattern being invoked
    led_range,          \* the bound of range(config.LED_COUNT), fixed when the
                        \* pattern's loop is entered
    frame,              \* local frame of run()
    frame_times,        \* local frame_times of run()
    sleep_time,         \* local sleep_time of run()
    exc,                \* exception in flight in run(), "none" if none
    ctl,                \* position of the web thread in a controller call
    upd,                \* items of new_config update_config has yet to visit
    call,               \* the call the web thread made last, with its result
    ncalls,             \* number of controller calls made by the web thread
    stop_at,            \* history: where the main thread was when shutdown was
                        \* first requested, and the frame counter then
    geom,               \* the geometry attributes of a Config object
    cache_for,          \* the geometry Config._serpentine_map was built from
    fcall,              \* the mapper or colour function applied last, with
                        \* its arguments and its result
    scan,               \* load_programs step by step: the directory listing,
                        \* how far the scan of it has come, who provides the
                        \* pattern under each key of self.programs, and what
                        \* a scripts/cosmic.py does when it is executed
    sw,                 \* the stats-writer thread: where it is, whether it
                        \* is in its first iteration, and the stats file
    mig                 \* scripts/migrate_to_hub75.py: the configuration
                        \* file, what it held before the last call of
                        \* migrate_config, and what the call returned

evars == <<config, running, current_program, programs, stats, pixels,
           brightness, sink, pc, active, px, frame, frame_times, sleep_time,
           exc, ctl, upd, call, ncalls, stop_at, led_range>>

svars == <<scan, sw, mig>>

pvars == <<geom, cache_for, fcall, scan, sw, mig>>

vars == <<config, running, current_program, programs, stats, pixels,
          brightness, sink, pc, active, px, frame, frame_times, sleep_time,
          exc, ctl, upd, call, ncalls, stop_at, led_range, geom, cache_for,
          fcall, scan, sw, mig>>

----------------------------------------------------------------------------
(* Bounds of the model *)

MaxFrames == 2      \* iterations of the render loop that are explored
MaxUptime == 1      \* seconds the stats writer is followed for
MaxArrivals == 32   \* frame times that are fed to the fps window
MaxSlow == 2        \* of which so many are over the target
MaxCalls == 1       \* controller calls the web thread makes
LedCount == 2       \* config.LED_COUNT, the length of the strip

(* Program constants *)

TargetFrameTicks == 2   \* target_frame_time = 1/60 s, in ticks of 1/120 s
FpsWindow == 30         \* len(frame_times) > 30
TargetFps == 600        \* 60 frames per second, in tenths
FpsTolerance == 200     \* "approximately": a third, as the fps test allows

Fallback == "cosmic"
Scripts == {"waves"}                    \* loadable modules of scripts/
ProgramNames == {Fallback} \cup Scripts
UnknownNames == {"nosuch"}

KnownFields == {"BRIGHTNESS", "GAMMA"}
UnknownFields == {"BOGUS"}
FieldValues == {1, 2}
FrameTicks == {1, 3}        \* measured frame_time: under and over the target

Blank == [by |-> "none", bri |-> 0, gam |-> 0]     \* the colour (0, 0, 0)

InitConfig == [BRIGHTNESS |-> 1, GAMMA |-> 1, LED_COUNT |-> LedCount,
               MATRIX_WIDTH |-> LedCount, MATRIX_HEIGHT |-> 1]

\* new_config mappings, as the item sequence dict iteration visits
Items == (KnownFields \X FieldValues) \cup (UnknownFields \X {1})
UpdateArgs ==
    {<<a>> : a \in Items} \cup
    {<<a, b>> : <<a, b>> \in {p \in Items \X Items : p[1][1] # p[2][1]}}

NoStop == [at |-> "none", frame |-> 0]

\* the stats thread before line 47 has started it; /tmp/cosmic_stats.json
\* is taken as absent
NoWriter == [at |-> "unborn", first |-> TRUE, file |-> <<>>]

\* a JSON object without members
EmptyMapping == <<>>

\* no settings file yet
AbsentFile == [kind |-> "absent", obj |-> EmptyMapping, has |-> FALSE]

\* migrate_config has not been called
NoMigration == [file |-> AbsentFile, before |-> AbsentFile, ret |-> "none"]

NoCall == [op |-> "none", name |-> "none", items |-> <<>>,
           before |-> InitConfig, prev |-> Fallback, ret |-> "none"]

----------------------------------------------------------------------------
(* The geometry a Config object holds (config_enhanced.Config), with the
   presets of its matrix types *)

Ws2811Width == 10
Ws2811Height == 10
Ws2811Fps == 15
Hub75Width == 64
Hub75Height == 64
Hub75Fps == 30

MatrixTypes == {"WS2811", "HUB75"}

Preset(matrix_type) ==
    IF matrix_type = "HUB75"
      THEN [matrix_type |-> "HUB75", matrix_width |-> Hub75Width,
            matrix_height |-> Hub75Height, fps |-> Hub75Fps,
            serpentine_wiring |-> FALSE]
      ELSE [matrix_type |-> "WS2811", matrix_width |-> Ws2811Width,
            matrix_height |-> Ws2811Height, fps |-> Ws2811Fps,
            serpentine_wiring |-> TRUE]

\* Config(): the default matrix type is WS2811
DefaultGeometry == Preset("WS2811")

\* what the serpentine map of a Config object is built from
MapKey(g) == [width |-> g.matrix_width, height |-> g.matrix_height]

\* Results are tuples: <<index>>, <<x, y>>, <<r, g, b>>, and None is <<>>
None == <<>>

\* load_programs has not begun
NoScan == [at |-> "builtin", listing |-> <<>>, todo |-> <<>>, owner |-> <<>>,
           cosmic_py |-> "animate"]

NoFn == [fn |-> "none", arg |-> <<>>, res |-> None, done |-> FALSE,
         before |-> DefaultGeometry]

----------------------------------------------------------------------------
(* Lifecycle of the scheduler, read off the position of the main thread *)

InitPcs == {"load_programs", "start_stats", "run"}
LoopPcs == {"loop", "invoke", "pattern", "show", "timing", "sleep"}
CleanupPcs == {"cleanup", "fill", "final_show", "deinit"}

Lifecycle ==
    IF pc \in InitPcs THEN "Initializing"
    ELSE IF pc \in LoopPcs THEN "Running"
    ELSE IF pc \in CleanupPcs THEN "Stopping"
    ELSE "Stopped"

AllBlank(buf) == \A i \in DOMAIN buf : buf[i] = Blank

----------------------------------------------------------------------------
(* CosmicLED.__init__ *)

Init ==
    /\ config = InitConfig
    /\ running = TRUE
    /\ current_program = Fallback
    /\ programs = {}
    /\ stats = [fps |-> 0, frame_count |-> 0, uptime |-> 0,
                current_program |-> Fallback, last_update |-> 0]
    /\ pixels = [i \in 1..InitConfig.LED_COUNT |-> Blank]
    /\ brightness = InitConfig.BRIGHTNESS
    /\ sink = [last |-> "none", released |-> FALSE]
    /\ pc = "load_programs"
    /\ active = "none"
    /\ px = 0
    /\ led_range = 0
    /\ frame = 0
    /\ frame_times = <<>>
    /\ sleep_time = 0
    /\ exc = "none"
    /\ ctl = "idle"
    /\ upd = <<>>
    /\ call = NoCall
    /\ ncalls = 0
    /\ stop_at = NoStop
    /\ geom = DefaultGeometry
    /\ cache_for = MapKey(DefaultGeometry)
    /\ fcall = NoFn
    /\ scan = NoScan
    /\ sw = NoWriter
    /\ mig = NoMigration

\* lines 49-73: the built-in pattern and the loadable modules of scripts/
\* are registered
load_programs ==
    /\ pc = "load_programs"
    /\ programs' = {Fallback} \cup Scripts
    /\ pc' = "start_stats"
    /\ UNCHANGED <<config, running, current_program, stats, pixels, brightness,
                   sink, active, px, frame, frame_times, sleep_time, exc, ctl,
                   upd, call, ncalls,
                   stop_at>>
    /\ UNCHANGED led_range
    /\ UNCHANGED pvars

\* lines 45-47: the stats thread is started; the constructor returns
start_stats ==
    /\ pc = "start_stats"
    /\ pc' = "run"
    /\ sw' = [sw EXCEPT !.at = "test"]
    /\ UNCHANGED <<config, running, current_program, programs, stats, pixels,
                   brightness, sink, active, px, frame, frame_times,
                   sleep_time, exc, ctl, upd, call, ncalls,
                   stop_at>>
    /\ UNCHANGED led_range
    /\ UNCHANGED <<geom, cache_for, fcall, scan, mig>>

----------------------------------------------------------------------------
(* CosmicLED.run *)

\* lines 140-144: the locals are set and the try block is entered
run_enter ==
    /\ pc = "run"
    /\ frame' = 0
    /\ frame_times' = <<>>
    /\ pc' = "loop"
    /\ UNCHANGED <<config, running, current_program, programs, stats, pixels,
                   brightness, sink, active, px, sleep_time, exc, ctl, upd,
                   call, ncalls,
                   stop_at>>
    /\ UNCHANGED led_range
    /\ UNCHANGED pvars

\* mutant of loop_test: the loop does not test the running flag (while True)
loop_test_ignores_flag ==
    /\ pc = "loop"
    /\ frame < MaxFrames
    /\ pc' = "invoke"
    /\ UNCHANGED <<config, running, current_program, programs, stats, pixels,
                   brightness, sink, active, px, frame, frame_times,
                   sleep_time, exc, ctl, upd, call, ncalls, stop_at>>
    /\ UNCHANGED led_range
    /\ UNCHANGED pvars

\* line 145: while self.running
loop_test ==
    /\ pc = "loop"
    /\ IF running
         THEN frame < MaxFrames /\ pc' = "invoke"
         ELSE pc' = "cleanup"
    /\ UNCHANGED <<config, running, current_program, programs, stats, pixels,
                   brightness, sink, active, px, frame, frame_times,
                   sleep_time, exc, ctl, upd, call, ncalls,
                   stop_at>>
    /\ UNCHANGED led_range
    /\ UNCHANGED pvars

\* mutant of invoke: the pattern fetched for the first iteration is kept
invoke_stale ==
    /\ pc = "invoke"
    /\ IF current_program \in programs
         THEN /\ active' = IF active = "none" THEN current_program ELSE active
              /\ px' = 0
              /\ led_range' = config.LED_COUNT
              /\ pc' = "pattern"
         ELSE pc' = "show" /\ UNCHANGED <<active, px, led_range>>
    /\ UNCHANGED <<config, running, current_program, programs, stats, pixels,
                   brightness, sink, frame, frame_times, sleep_time, exc, ctl,
                   upd, call, ncalls, stop_at>>
    /\ UNCHANGED pvars

\* lines 149-150: the lookup of the current program
invoke ==
    /\ pc = "invoke"
    /\ IF current_program \in programs
         THEN /\ active' = current_program
              /\ px' = 0
              /\ led_range' = config.LED_COUNT
              /\ pc' = "pattern"
         ELSE pc' = "show" /\ UNCHANGED <<active, px, led_range>>
    /\ UNCHANGED <<config, running, current_program, programs, stats, pixels,
                   brightness, sink, frame, frame_times, sleep_time, exc, ctl,
                   upd, call, ncalls,
                   stop_at>>
    /\ UNCHANGED pvars

\* The colour a pattern computes for one pixel: it reads config.BRIGHTNESS
\* and config.GAMMA anew for every pixel (lines 85 and 91).
PixelColour(prog, cfg) == [by |-> prog, bri |-> cfg.BRIGHTNESS, gam |-> cfg.GAMMA]

\* lines 79-93: one turn of the pattern's loop over the pixels
pattern_pixel ==
    /\ pc = "pattern"
    /\ px < led_range
    /\ px < Len(pixels)
    /\ pixels' = [pixels EXCEPT ![px + 1] = PixelColour(active, config)]
    /\ px' = px + 1
    /\ UNCHANGED <<config, running, current_program, programs, stats,
                   brightness, sink, pc, active, frame, frame_times,
                   sleep_time, exc, ctl, upd, call, ncalls,
                   stop_at>>
    /\ UNCHANGED led_range
    /\ UNCHANGED pvars

\* mutant of pattern_return: the pattern is looked up and invoked again
pattern_return_reinvokes ==
    /\ pc = "pattern"
    /\ px = led_range
    /\ pc' = "invoke"
    /\ UNCHANGED <<config, running, current_program, programs, stats, pixels,
                   brightness, sink, active, px, frame, frame_times,
                   sleep_time, exc, ctl, upd, call, ncalls,
                   stop_at>>
    /\ UNCHANGED led_range
    /\ UNCHANGED pvars

\* the pattern returns
pattern_return ==
    /\ pc = "pattern"
    /\ px = led_range
    /\ pc' = "show"
    /\ UNCHANGED <<config, running, current_program, programs, stats, pixels,
                   brightness, sink, active, px, frame, frame_times,
                   sleep_time, exc, ctl, upd, call, ncalls,
                   stop_at>>
    /\ UNCHANGED led_range
    /\ UNCHANGED pvars

\* Where an exception other than KeyboardInterrupt goes from inside the try
\* block of run(): no except clause matches, so the finally clause runs.
Propagate(kind) == exc' = kind /\ pc' = "cleanup"

\* a pattern loaded from scripts/ raises during its call
pattern_raise ==
    /\ pc = "pattern"
    /\ active \in Scripts
    /\ Propagate("pattern")
    /\ UNCHANGED <<config, running, current_program, programs, stats, pixels,
                   brightness, sink, active, px, frame, frame_times,
                   sleep_time, ctl, upd, call, ncalls,
                   stop_at>>
    /\ UNCHANGED led_range
    /\ UNCHANGED pvars

FrameKind(buf) == IF AllBlank(buf) THEN "blank" ELSE "lit"

\* mutant of show: the commit waits for a stats write in progress
show_waits_for_writer ==
    /\ pc = "show"
    /\ sw.at \notin {"open", "dump"}
    /\ sink' = [sink EXCEPT !.last = FrameKind(pixels)]
    /\ pc' = "timing"
    /\ UNCHANGED <<config, running, current_program, programs, stats, pixels,
                   brightness, active, px, frame, frame_times, sleep_time,
                   exc, ctl, upd, call, ncalls,
                   stop_at>>
    /\ UNCHANGED led_range
    /\ UNCHANGED pvars

\* line 155: self.pixels.show()
show ==
    /\ pc = "show"
    /\ sink' = [sink EXCEPT !.last = FrameKind(pixels)]
    /\ pc' = "timing"
    /\ UNCHANGED <<config, running, current_program, programs, stats, pixels,
                   brightness, active, px, frame, frame_times, sleep_time,
                   exc, ctl, upd, call, ncalls,
                   stop_at>>
    /\ UNCHANGED led_range
    /\ UNCHANGED pvars

\* line 155: self.pixels.show() raises
show_fails ==
    /\ pc = "show"
    /\ Propagate("sink")
    /\ UNCHANGED <<config, running, current_program, programs, stats, pixels,
                   brightness, sink, active, px, frame, frame_times,
                   sleep_time, ctl, upd, call, ncalls,
                   stop_at>>
    /\ UNCHANGED led_range
    /\ UNCHANGED pvars

RECURSIVE Sum(_)
Sum(s) == IF s = <<>> THEN 0 ELSE Head(s) + Sum(Tail(s))

\* mutant of Window: the newest frame time is dropped, not the oldest
WindowDropsNewest(s) == IF Len(s) > FpsWindow THEN SubSeq(s, 1, FpsWindow) ELSE s

\* lines 161-162: frame_times.pop(0) once the list is longer than the window
Window(s) == IF Len(s) > FpsWindow THEN Tail(s) ELSE s

\* lines 165-166, in tenths of a frame per second, a tick being 1/120 s
Fps(s) ==
    IF Sum(s) > 0 THEN (2 * 1200 * Len(s) + Sum(s)) \div (2 * Sum(s)) ELSE 0

\* mutant of timing: the loop is not paced
timing_unpaced ==
    /\ pc = "timing"
    /\ \E ft \in FrameTicks, second \in BOOLEAN :
         /\ frame_times' = Window(Append(frame_times, ft))
         /\ stats' = [stats EXCEPT
                        !.fps = IF second THEN Fps(frame_times') ELSE @,
                        !.frame_count = frame]
         /\ sleep_time' = TargetFrameTicks - ft
    /\ frame' = frame + 1
    /\ pc' = "loop"
    /\ UNCHANGED <<config, running, current_program, programs, pixels,
                   brightness, sink, active, px, exc, ctl, upd, call, ncalls,
                   stop_at>>
    /\ UNCHANGED led_range
    /\ UNCHANGED pvars

\* lines 158-175: the frame time, the fps statistic, the frame counter and
\* the sleep that is due
timing ==
    /\ pc = "timing"
    /\ \E ft \in FrameTicks, second \in BOOLEAN :
         /\ frame_times' = Window(Append(frame_times, ft))
         /\ stats' = [stats EXCEPT
                        !.fps = IF second THEN Fps(frame_times') ELSE @,
                        !.frame_count = frame]
         /\ sleep_time' = TargetFrameTicks - ft
    /\ frame' = frame + 1
    /\ pc' = IF sleep_time' > 0 THEN "sleep" ELSE "loop"
    /\ UNCHANGED <<config, running, current_program, programs, pixels,
                   brightness, sink, active, px, exc, ctl, upd, call, ncalls,
                   stop_at>>
    /\ UNCHANGED led_range
    /\ UNCHANGED pvars

\* line 176: time.sleep(sleep_time) returns
sleep ==
    /\ pc = "sleep"
    /\ pc' = "loop"
    /\ UNCHANGED <<config, running, current_program, programs, stats, pixels,
                   brightness, sink, active, px, frame, frame_times,
                   sleep_time, exc, ctl, upd, call, ncalls,
                   stop_at>>
    /\ UNCHANGED led_range
    /\ UNCHANGED pvars

\* the first request to shut down is remembered with the main thread's place
Requested == IF stop_at = NoStop THEN [at |-> pc, frame |-> frame] ELSE stop_at

\* lines 178-179: KeyboardInterrupt reaches the main thread inside the try
\* block, the sleep included; the handler prints and falls into finally
interrupt ==
    /\ pc \in LoopPcs
    /\ pc' = "cleanup"
    /\ stop_at' = Requested
    /\ UNCHANGED <<config, running, current_program, programs, stats, pixels,
                   brightness, sink, active, px, frame, frame_times,
                   sleep_time, exc, ctl, upd, call, ncalls>>
    /\ UNCHANGED led_range
    /\ UNCHANGED pvars

\* KeyboardInterrupt reaches the main thread outside the try block: before
\* it (lines 140-142) or in the finally clause; run() propagates it
interrupt_outside ==
    /\ pc \in {"run"} \cup CleanupPcs
    /\ exc' = "interrupt"
    /\ pc' = "done"
    /\ stop_at' = Requested
    /\ UNCHANGED <<config, running, current_program, programs, stats, pixels,
                   brightness, sink, active, px, frame, frame_times,
                   sleep_time, ctl, upd, call, ncalls>>
    /\ UNCHANGED led_range
    /\ UNCHANGED pvars

----------------------------------------------------------------------------
(* CosmicLED.cleanup, called from the finally clause of run() *)

\* line 185
cleanup ==
    /\ pc = "cleanup"
    /\ running' = FALSE
    /\ pc' = "fill"
    /\ UNCHANGED <<config, current_program, programs, stats, pixels,
                   brightness, sink, active, px, frame, frame_times,
                   sleep_time, exc, ctl, upd, call, ncalls,
                   stop_at>>
    /\ UNCHANGED led_range
    /\ UNCHANGED pvars

\* mutant of fill: cleanup does not blank the buffer before the last show()
fill_skipped ==
    /\ pc = "fill"
    /\ pc' = "final_show"
    /\ UNCHANGED <<config, running, current_program, programs, stats, pixels,
                   brightness, sink, active, px, frame, frame_times,
                   sleep_time, exc, ctl, upd, call, ncalls, stop_at>>
    /\ UNCHANGED led_range
    /\ UNCHANGED pvars

\* line 186
fill ==
    /\ pc = "fill"
    /\ pixels' = [i \in DOMAIN pixels |-> Blank]
    /\ pc' = "final_show"
    /\ UNCHANGED <<config, running, current_program, programs, stats,
                   brightness, sink, active, px, frame, frame_times,
                   sleep_time, exc, ctl, upd, call, ncalls,
                   stop_at>>
    /\ UNCHANGED led_range
    /\ UNCHANGED pvars

\* line 187
final_show ==
    /\ pc = "final_show"
    /\ sink' = [sink EXCEPT !.last = FrameKind(pixels)]
    /\ pc' = "deinit"
    /\ UNCHANGED <<config, running, current_program, programs, stats, pixels,
                   brightness, active, px, frame, frame_times, sleep_time,
                   exc, ctl, upd, call, ncalls,
                   stop_at>>
    /\ UNCHANGED led_range
    /\ UNCHANGED pvars

\* line 187 raises: cleanup and run() propagate it
final_show_fails ==
    /\ pc = "final_show"
    /\ exc' = "sink"
    /\ pc' = "done"
    /\ UNCHANGED <<config, running, current_program, programs, stats, pixels,
                   brightness, sink, active, px, frame, frame_times,
                   sleep_time, ctl, upd, call, ncalls,
                   stop_at>>
    /\ UNCHANGED led_range
    /\ UNCHANGED pvars

\* mutant of deinit: the finally clause sits inside the while body, so the
\* loop is resumed after the cleanup
deinit_in_loop ==
    /\ pc = "deinit"
    /\ sink' = [sink EXCEPT !.released = TRUE]
    /\ pc' = "loop"
    /\ UNCHANGED <<config, running, current_program, programs, stats, pixels,
                   brightness, active, px, frame, frame_times, sleep_time,
                   exc, ctl, upd, call, ncalls, stop_at>>
    /\ UNCHANGED led_range
    /\ UNCHANGED pvars

\* line 188
deinit ==
    /\ pc = "deinit"
    /\ sink' = [sink EXCEPT !.released = TRUE]
    /\ pc' = "done"
    /\ UNCHANGED <<config, running, current_program, programs, stats, pixels,
                   brightness, active, px, frame, frame_times, sleep_time,
                   exc, ctl, upd, call, ncalls,
                   stop_at>>
    /\ UNCHANGED led_range
    /\ UNCHANGED pvars

----------------------------------------------------------------------------
(* The web thread: calls on the controller made while the main thread is in
   run(). main() starts the thread after the constructor has returned, and
   the thread is a daemon: it ends with run(). *)

WebThreadUp == pc \notin {"load_programs", "start_stats", "done"}

\* mutant of switch_program: the name is stored before it is looked up
switch_program_stores_first ==
    /\ ctl = "idle"
    /\ WebThreadUp
    /\ ncalls < MaxCalls
    /\ ncalls' = ncalls + 1
    /\ \E program_name \in ProgramNames \cup UnknownNames :
         /\ current_program' = program_name
         /\ IF program_name \in programs
              THEN /\ ctl' = "switch_stats"
                   /\ call' = [NoCall EXCEPT !.op = "switch_program",
                                 !.name = program_name, !.before = config,
                                 !.prev = current_program]
              ELSE /\ call' = [NoCall EXCEPT !.op = "switch_program",
                                 !.name = program_name, !.before = config,
                                 !.prev = current_program, !.ret = "False"]
                   /\ UNCHANGED ctl
    /\ UNCHANGED <<config, running, programs, stats, pixels, brightness, sink,
                   pc, active, px, frame, frame_times, sleep_time, exc, upd,
                   stop_at>>
    /\ UNCHANGED led_range
    /\ UNCHANGED pvars

\* mutant of switch_program: the name is not looked up
switch_program_unchecked ==
    /\ ctl = "idle"
    /\ WebThreadUp
    /\ ncalls < MaxCalls
    /\ ncalls' = ncalls + 1
    /\ \E program_name \in ProgramNames \cup UnknownNames :
         /\ current_program' = program_name
         /\ ctl' = "switch_stats"
         /\ call' = [NoCall EXCEPT !.op = "switch_program",
                       !.name = program_name, !.before = config,
                       !.prev = current_program]
    /\ UNCHANGED <<config, running, programs, stats, pixels, brightness, sink,
                   pc, active, px, frame, frame_times, sleep_time, exc, upd,
                   stop_at>>
    /\ UNCHANGED led_range
    /\ UNCHANGED pvars

\* lines 123-124 and 127: the test, the switch and the False result
switch_program ==
    /\ ctl = "idle"
    /\ WebThreadUp
    /\ ncalls < MaxCalls
    /\ ncalls' = ncalls + 1
    /\ \E program_name \in ProgramNames \cup UnknownNames :
         IF program_name \in programs
           THEN /\ current_program' = program_name
                /\ ctl' = "switch_stats"
                /\ call' = [NoCall EXCEPT !.op = "switch_program",
                              !.name = program_name, !.before = config,
                              !.prev = current_program]
           ELSE /\ call' = [NoCall EXCEPT !.op = "switch_program",
                              !.name = program_name, !.before = config,
                              !.prev = current_program, !.ret = "False"]
                /\ UNCHANGED <<current_program, ctl>>
    /\ UNCHANGED <<config, running, programs, stats, pixels, brightness, sink,
                   pc, active, px, frame, frame_times, sleep_time, exc, upd,
                   stop_at>>
    /\ UNCHANGED led_range
    /\ UNCHANGED pvars

\* lines 125-126
switch_stats ==
    /\ ctl = "switch_stats"
    /\ WebThreadUp
    /\ stats' = [stats EXCEPT !.current_program = call.name]
    /\ call' = [call EXCEPT !.ret = "True"]
    /\ ctl' = "idle"
    /\ UNCHANGED <<config, running, current_program, programs, pixels,
                   brightness, sink, pc, active, px, frame, frame_times,
                   sleep_time, exc, upd, ncalls,
                   stop_at>>
    /\ UNCHANGED led_range
    /\ UNCHANGED pvars

\* line 129: update_config is entered with a mapping
update_config ==
    /\ ctl = "idle"
    /\ WebThreadUp
    /\ ncalls < MaxCalls
    /\ ncalls' = ncalls + 1
    /\ \E new_config \in UpdateArgs :
         /\ upd' = new_config
         /\ call' = [NoCall EXCEPT !.op = "update_config",
                       !.items = new_config, !.before = config,
                       !.prev = current_program]
    /\ ctl' = "update"
    /\ UNCHANGED <<config, running, current_program, programs, stats, pixels,
                   brightness, sink, pc, active, px, frame, frame_times,
                   sleep_time, exc,
                   stop_at>>
    /\ UNCHANGED led_range
    /\ UNCHANGED pvars

\* lines 132-133 for one item: hasattr, then setattr
ApplyItem(cfg, item) ==
    IF item[1] \in DOMAIN cfg THEN [cfg EXCEPT ![item[1]] = item[2]] ELSE cfg

\* lines 131-133: one turn of the loop over new_config.items()
update_item ==
    /\ ctl = "update"
    /\ WebThreadUp
    /\ upd # <<>>
    /\ config' = ApplyItem(config, Head(upd))
    /\ upd' = Tail(upd)
    /\ UNCHANGED <<running, current_program, programs, stats, pixels,
                   brightness, sink, pc, active, px, frame, frame_times,
                   sleep_time, exc, ctl, call, ncalls,
                   stop_at>>
    /\ UNCHANGED led_range
    /\ UNCHANGED pvars

\* line 136, and the return of None
update_brightness ==
    /\ ctl = "update"
    /\ WebThreadUp
    /\ upd = <<>>
    /\ brightness' = config.BRIGHTNESS
    /\ call' = [call EXCEPT !.ret = "None"]
    /\ ctl' = "idle"
    /\ UNCHANGED <<config, running, current_program, programs, stats, pixels,
                   sink, pc, active, px, frame, frame_times, sleep_time, exc,
                   upd, ncalls,
                   stop_at>>
    /\ UNCHANGED led_range
    /\ UNCHANGED pvars

\* the running flag is cleared from another thread
request_stop ==
    /\ WebThreadUp
    /\ running
    /\ running' = FALSE
    /\ stop_at' = Requested
    /\ UNCHANGED <<config, current_program, programs, stats, pixels,
                   brightness, sink, pc, active, px, frame, frame_times,
                   sleep_time, exc, ctl, upd, call, ncalls>>
    /\ UNCHANGED led_range
    /\ UNCHANGED pvars

Control ==
    \/ switch_program \/ switch_stats
    \/ update_config \/ update_item \/ update_brightness
    \/ request_stop

Render ==
    \/ load_programs \/ start_stats \/ run_enter \/ loop_test \/ invoke
    \/ pattern_pixel \/ pattern_return \/ show \/ timing \/ sleep
    \/ cleanup \/ fill \/ final_show \/ deinit

Faults == pattern_raise \/ show_fails \/ final_show_fails

Signals == interrupt \/ interrupt_outside

Next == Render \/ Faults \/ Signals \/ Control

Spec == Init /\ [][Next]_vars

\* The main thread is scheduled: whatever it can do next, normally or by
\* raising, it eventually does.
FairSpec == Spec /\ WF_vars(Render \/ Faults)

----------------------------------------------------------------------------
(* Helpers of the properties *)

RECURSIVE ApplyAll(_, _)
ApplyAll(cfg, items) ==
    IF items = <<>> THEN cfg ELSE ApplyAll(ApplyItem(cfg, Head(items)), Tail(items))

KeysOf(items) == {items[i][1] : i \in DOMAIN items}

\* the configuration holds part of the update in progress, not all of it
TornConfig ==
    /\ ctl = "update"
    /\ config # call.before
    /\ config # ApplyAll(call.before, call.items)

\* every pixel of the buffer was computed with the same parameter values
Uniform(buf) ==
    \A i, j \in DOMAIN buf : buf[i].bri = buf[j].bri /\ buf[i].gam = buf[j].gam

\* a pattern's exception surfaces in run()
PatternRaises == exc = "none" /\ exc' = "pattern"

\* the commit of a frame of the loop fails
CommitFails == pc = "show" /\ exc = "none" /\ exc' = "sink"

Rank(l) ==
    CASE l = "Initializing" -> 0
      [] l = "Running" -> 1
      [] l = "Stopping" -> 2
      [] l = "Stopped" -> 3

----------------------------------------------------------------------------
(* Properties *)

\* C1: a pattern that raises does not end the render loop: while no shutdown
\* has been requested the scheduler is still Running after the exception.
C1_RaiseKeepsLoopRunning ==
    [][(PatternRaises /\ running) => Lifecycle' = "Running"]_vars

\* C2: when a pattern invocation raises, the built-in fallback pattern is
\* substituted as the active pattern for the frames that follow.
C2_RaiseSubstitutesFallback ==
    [][PatternRaises => current_program' = Fallback]_vars

\* C4: no pixel of a frame is computed from a configuration that holds only
\* part of an update: a pattern reads either all of its fields or none.
C4_NoHalfAppliedUpdateRead ==
    [][(pc = "pattern" /\ px' = px + 1) => ~TornConfig]_vars

\* C5: all pixels of a frame handed to the sink were computed with the same
\* brightness and gamma, and the sink's brightness does not change between
\* the start of a pattern invocation and the commit of its frame.
C5_ParametersChangeAtFrameBoundary ==
    [][/\ pc' = "show" => Uniform(pixels')
       /\ brightness' # brightness => pc \notin {"pattern", "show"}]_vars

C7_LifecycleOnlyForward ==
    [][/\ Rank(Lifecycle') >= Rank(Lifecycle)
       /\ (Lifecycle = "Stopped" \/ sink.released) =>
             (sink' = sink /\ pixels' = pixels /\ pc' # "pattern" /\ pc' # "show")]_vars

C7_Witness ==
    Lifecycle = "Stopped" /\ sink.released /\ frame > 0 /\ exc = "none"

\* Steps the main thread still has to take before run() has ended, counted
\* from its place when no further iteration may start.
StepsToStopped ==
    CASE pc = "done" -> 0
      [] pc = "deinit" -> 1
      [] pc = "final_show" -> 2
      [] pc = "fill" -> 3
      [] pc = "cleanup" -> 4
      [] pc = "loop" -> 5
      [] pc = "sleep" -> 6
      [] pc = "run" -> 6
      [] pc = "timing" -> 7
      [] pc = "show" -> 8
      [] pc = "pattern" -> 9 + (LedCount - px)
      [] pc = "invoke" -> 10 + LedCount
      [] OTHER -> 12 + LedCount

C9_FailedCommitDropsFrame ==
    [][CommitFails => pc' = "timing"]_vars

\* C10: an update of one unknown and one known field, in either order, sets
\* the known field, leaves the other fields alone and returns the name of
\* the unknown field as the rejected one.
C10_UnknownFieldReported ==
    (/\ call.op = "update_config"
     /\ call.ret # "none"
     /\ Len(call.items) = 2
     /\ Cardinality(KeysOf(call.items) \cap KnownFields) = 1)
    => (/\ config = ApplyAll(call.before, call.items)
        /\ call.ret \in KeysOf(call.items) \ KnownFields)

----------------------------------------------------------------------------
(* The coordinate mapper of a Config object: xy_to_index, index_to_xy and
   the geometry switches.  The mapper is explored on its own: the engine
   stays as constructed. *)

MaxDim == 4         \* widths and heights a geometry is switched to directly
FullRange == 10     \* coordinates 0..FullRange are all tried; beyond, the
                    \* last ones of the matrix and the first outside it

PixelCount(g) == g.matrix_width * g.matrix_height

\* mutant: the even rows are the reversed ones
SerpentineEntryEvenReversed(key, x, y) ==
    y * key.width + (IF y % 2 = 0 THEN key.width - 1 - x ELSE x)

\* the entry of the serpentine map built for the dimensions key
SerpentineEntry(key, x, y) ==
    y * key.width + (IF y % 2 = 1 THEN key.width - 1 - x ELSE x)

\* mutant: the mapper without its bounds check
xy_to_index_unchecked(x, y) ==
    IF geom.serpentine_wiring
      THEN <<SerpentineEntry(cache_for, x, y)>>
      ELSE <<y * geom.matrix_width + x>>

xy_to_index(x, y) ==
    IF x < 0 \/ x >= geom.matrix_width \/ y < 0 \/ y >= geom.matrix_height
      THEN None
      ELSE IF geom.serpentine_wiring
             THEN <<SerpentineEntry(cache_for, x, y)>>
             ELSE <<y * geom.matrix_width + x>>

\* mutant: the inverse that forgets the reversal of the odd rows
index_to_xy_progressive(index) ==
    IF index < 0 \/ index >= PixelCount(geom)
      THEN None
      ELSE <<index % geom.matrix_width, index \div geom.matrix_width>>

index_to_xy(index) ==
    IF index < 0 \/ index >= PixelCount(geom)
      THEN None
      ELSE LET y == index \div geom.matrix_width
               r == index % geom.matrix_width
           IN  IF geom.serpentine_wiring /\ y % 2 = 1
                 THEN <<geom.matrix_width - 1 - r, y>>
                 ELSE <<r, y>>

\* the coordinates and indices the mapper is applied to
Coords(n) == {k \in 0..n : k <= FullRange \/ k >= n - 1}
Indices(g) ==
    {i \in (0..(FullRange * FullRange)) \cup
            ((PixelCount(g) - g.matrix_width - 1)..PixelCount(g)) :
        0 <= i /\ i <= PixelCount(g)}

\* mutant: the type and the dimensions are set, the frame rate and the
\* wiring are left as they are
set_matrix_type_size_only ==
    /\ \E matrix_type \in MatrixTypes :
         /\ geom' = [geom EXCEPT
                        !.matrix_type = matrix_type,
                        !.matrix_width = Preset(matrix_type).matrix_width,
                        !.matrix_height = Preset(matrix_type).matrix_height]
         /\ cache_for' = MapKey(Preset(matrix_type))
         /\ fcall' = [fn |-> "set_matrix_type", arg |-> <<matrix_type>>,
                      res |-> None, done |-> TRUE, before |-> geom]
    /\ UNCHANGED evars
    /\ UNCHANGED svars

\* mutant: the preset is applied, the serpentine map is left as it was
set_matrix_type_keeps_map ==
    /\ \E matrix_type \in MatrixTypes :
         /\ geom' = Preset(matrix_type)
         /\ fcall' = [fn |-> "set_matrix_type", arg |-> <<matrix_type>>,
                      res |-> None, done |-> TRUE, before |-> geom]
    /\ UNCHANGED cache_for
    /\ UNCHANGED evars
    /\ UNCHANGED svars

\* Config.set_matrix_type(matrix_type)
set_matrix_type ==
    /\ \E matrix_type \in MatrixTypes :
         /\ geom' = Preset(matrix_type)
         /\ cache_for' = MapKey(Preset(matrix_type))
         /\ fcall' = [fn |-> "set_matrix_type", arg |-> <<matrix_type>>,
                      res |-> None, done |-> TRUE, before |-> geom]
    /\ UNCHANGED evars
    /\ UNCHANGED svars

\* the explicit geometry switch: width, height and wiring are replaced
\* together and the serpentine map is rebuilt
set_geometry ==
    /\ \E w \in 1..MaxDim, h \in 1..MaxDim, serpentine \in BOOLEAN :
         /\ geom' = [geom EXCEPT !.matrix_width = w, !.matrix_height = h,
                                 !.serpentine_wiring = serpentine]
         /\ cache_for' = [width |-> w, height |-> h]
         /\ fcall' = [fn |-> "set_geometry", arg |-> <<w, h>>,
                      res |-> None, done |-> TRUE, before |-> geom]
    /\ UNCHANGED evars
    /\ UNCHANGED svars

\* a pattern asks for the index of a coordinate
call_xy_to_index ==
    /\ \E x \in Coords(geom.matrix_width), y \in Coords(geom.matrix_height) :
         fcall' = [fn |-> "xy_to_index", arg |-> <<x, y>>,
                   res |-> xy_to_index(x, y), done |-> TRUE, before |-> geom]
    /\ UNCHANGED <<geom, cache_for>>
    /\ UNCHANGED evars
    /\ UNCHANGED svars

\* a caller asks for the coordinate of an index
call_index_to_xy ==
    /\ \E index \in Indices(geom) :
         fcall' = [fn |-> "index_to_xy", arg |-> <<index>>,
                   res |-> index_to_xy(index), done |-> TRUE, before |-> geom]
    /\ UNCHANGED <<geom, cache_for>>
    /\ UNCHANGED evars
    /\ UNCHANGED svars

MapNext ==
    \/ set_matrix_type \/ set_geometry
    \/ call_xy_to_index \/ call_index_to_xy

MapSpec == Init /\ [][MapNext]_vars

----------------------------------------------------------------------------
(* Properties of the coordinate mapper *)

InBounds(x, y) == x < geom.matrix_width /\ y < geom.matrix_height

\* C11: for both wirings and every geometry xy_to_index and index_to_xy undo
\* each other: the coordinate of the index of (x, y) is (x, y), the index of
\* the coordinate of i is i, and every index is the image of exactly one
\* coordinate.
C11_MapperRoundTrip ==
    /\ fcall.fn = "xy_to_index" /\ InBounds(fcall.arg[1], fcall.arg[2]) =>
          /\ fcall.res # None
          /\ index_to_xy(fcall.res[1]) = fcall.arg
    /\ fcall.fn = "index_to_xy" /\ fcall.arg[1] < PixelCount(geom) =>
          /\ fcall.res # None
          /\ xy_to_index(fcall.res[1], fcall.res[2]) = fcall.arg
    /\ geom.matrix_width <= MaxDim /\ geom.matrix_height <= MaxDim =>
          \A i \in 0..(PixelCount(geom) - 1) :
             Cardinality({c \in (0..(geom.matrix_width - 1)) \X
                                (0..(geom.matrix_height - 1)) :
                            xy_to_index(c[1], c[2]) = <<i>>}) = 1

C11_Witness ==
    /\ fcall.fn = "index_to_xy"
    /\ geom.serpentine_wiring
    /\ geom.matrix_width = MaxDim /\ geom.matrix_height = MaxDim
    /\ fcall.arg = <<MaxDim>>
    /\ fcall.res = <<MaxDim - 1, 1>>

\* C12: on a coordinate inside the matrix xy_to_index is y*width + x for
\* progressive wiring and y*width + (x on even rows, width-1-x on odd rows)
\* for serpentine wiring; so (3,1) -> 4 and (0,1) -> 7 on a serpentine 4x4
\* and (0,1) -> 64 and (63,63) -> 4095 on a progressive 64x64.
C12_MapperMatchesReference ==
    fcall.fn = "xy_to_index" /\ InBounds(fcall.arg[1], fcall.arg[2]) =>
      LET x == fcall.arg[1]
          y == fcall.arg[2]
          w == geom.matrix_width
          h == geom.matrix_height
      IN  /\ ~geom.serpentine_wiring => fcall.res = <<y * w + x>>
          /\ geom.serpentine_wiring /\ y % 2 = 0 => fcall.res = <<y * w + x>>
          /\ geom.serpentine_wiring /\ y % 2 = 1 =>
                fcall.res = <<y * w + (w - 1 - x)>>
          /\ geom.serpentine_wiring /\ w = 4 /\ h = 4 =>
                /\ fcall.arg = <<3, 1>> => fcall.res = <<4>>
                /\ fcall.arg = <<0, 1>> => fcall.res = <<7>>
          /\ ~geom.serpentine_wiring /\ w = 64 /\ h = 64 =>
                /\ fcall.arg = <<0, 1>> => fcall.res = <<64>>
                /\ fcall.arg = <<63, 63>> => fcall.res = <<4095>>

C12_Witness ==
    /\ fcall.fn = "xy_to_index"
    /\ geom.serpentine_wiring
    /\ geom.matrix_width = 4 /\ geom.matrix_height = 4
    /\ fcall.arg = <<3, 1>>
    /\ fcall.res = <<4>>

\* C13: xy_to_index of a coordinate with x >= width or y >= height, and
\* index_to_xy of an index >= the pixel count, give the out-of-bounds
\* sentinel, never an index or a coordinate of the matrix.
C13_OutOfRangeIsSentinel ==
    /\ fcall.fn = "xy_to_index" /\ ~InBounds(fcall.arg[1], fcall.arg[2]) =>
          fcall.res = None
    /\ fcall.fn = "index_to_xy" /\ fcall.arg[1] >= PixelCount(geom) =>
          fcall.res = None

C13_Witness ==
    /\ fcall.fn = "xy_to_index"
    /\ fcall.arg = <<geom.matrix_width, 0>>
    /\ geom.matrix_height > 1
    /\ fcall.res = None

C15_SetMatrixTypeAppliesPreset ==
    fcall.fn = "set_matrix_type" =>
      /\ geom.matrix_type = fcall.arg[1]
      /\ geom.matrix_type = "HUB75" =>
            /\ geom.matrix_width = 64 /\ geom.matrix_height = 64
            /\ geom.fps = 30 /\ ~geom.serpentine_wiring
      /\ geom.matrix_type = "WS2811" =>
            /\ geom.matrix_width = 10 /\ geom.matrix_height = 10
            /\ geom.fps = 15 /\ geom.serpentine_wiring

\* WS2811, then HUB75, then WS2811 again
C15_Witness ==
    /\ fcall.fn = "set_matrix_type"
    /\ fcall.before = Preset("HUB75")
    /\ geom = DefaultGeometry

\* the index of a coordinate computed from the geometry alone
FreshIndex(g, x, y) ==
    IF x >= g.matrix_width \/ y >= g.matrix_height
      THEN None
      ELSE IF g.serpentine_wiring /\ y % 2 = 1
             THEN <<y * g.matrix_width + (g.matrix_width - 1 - x)>>
             ELSE <<y * g.matrix_width + x>>

\* C16: after any sequence of geometry switches the serpentine map is the
\* one of the current width and height, and a result of the mapper is the
\* result for the current geometry.
C16_NoStaleMap ==
    /\ cache_for = MapKey(geom)
    /\ fcall.fn = "xy_to_index" =>
          fcall.res = FreshIndex(geom, fcall.arg[1], fcall.arg[2])
    /\ fcall.fn = "index_to_xy" /\ fcall.res # None =>
          FreshIndex(geom, fcall.res[1], fcall.res[2]) = fcall.arg

\* a mapper call on a geometry reached by two switches at least: the matrix
\* type was set to HUB75, the dimensions then directly
C16_Witness ==
    /\ geom.matrix_type = "HUB75"
    /\ geom.serpentine_wiring
    /\ geom.matrix_width = MaxDim - 1 /\ geom.matrix_height = MaxDim
    /\ fcall.fn = "xy_to_index"
    /\ fcall.arg = <<0, 1>>
    /\ fcall.res = <<2 * (MaxDim - 1) - 1>>

----------------------------------------------------------------------------
(* Geometry fields in update_config: the engine with a controller that also
   sends LED_COUNT, MATRIX_WIDTH and MATRIX_HEIGHT *)

GeometryFields == {"LED_COUNT", "MATRIX_WIDTH", "MATRIX_HEIGHT"}

\* a strip one shorter and one longer than the one allocated
GeometryValues == {LedCount - 1, LedCount + 1}

\* new_config mappings: one geometry field alone, or a whole geometry of
\* one row whose width times height equals its pixel count
GeometryArgs ==
    {<<<<f, n>>>> : f \in GeometryFields, n \in GeometryValues} \cup
    {<<<<"MATRIX_WIDTH", n>>, <<"MATRIX_HEIGHT", 1>>, <<"LED_COUNT", n>>>> :
        n \in GeometryValues}

\* line 129: update_config is entered with a mapping of geometry fields
update_geometry ==
    /\ ctl = "idle"
    /\ WebThreadUp
    /\ ncalls < MaxCalls
    /\ ncalls' = ncalls + 1
    /\ \E new_config \in GeometryArgs :
         /\ upd' = new_config
         /\ call' = [NoCall EXCEPT !.op = "update_config",
                       !.items = new_config, !.before = config,
                       !.prev = current_program]
    /\ ctl' = "update"
    /\ UNCHANGED <<config, running, current_program, programs, stats, pixels,
                   brightness, sink, pc, active, px, frame, frame_times,
                   sleep_time, exc, stop_at, led_range>>
    /\ UNCHANGED pvars

\* line 93: pixels[i] = rgb with i beyond the allocated buffer raises
\* IndexError, which leaves run() like any exception of a pattern
pattern_index_error ==
    /\ pc = "pattern"
    /\ px < led_range
    /\ px >= Len(pixels)
    /\ Propagate("pattern")
    /\ UNCHANGED <<config, running, current_program, programs, stats, pixels,
                   brightness, sink, active, px, frame, frame_times,
                   sleep_time, ctl, upd, call, ncalls, stop_at, led_range>>
    /\ UNCHANGED pvars

GeoNext == Next \/ update_geometry \/ pattern_index_error

GeoSpec == Init /\ [][GeoNext]_vars

\* C17: in every reachable state, also after configuration updates, width
\* times height equals the configured pixel count.
C17_WidthTimesHeightIsPixelCount ==
    config.MATRIX_WIDTH * config.MATRIX_HEIGHT = config.LED_COUNT

\* C18: whenever a pattern is invoked the length of the pixel buffer equals
\* the configured pixel count.
C18_BufferMatchesPixelCount ==
    [][(pc = "invoke" /\ pc' = "pattern") => Len(pixels) = config.LED_COUNT]_vars

----------------------------------------------------------------------------
(* The colour functions: CosmicLED.hsv_to_rgb (through colorsys),
   the hsv_to_rgb of LB_Interface_work/test_color_math.py and
   CosmicLED.gamma_correct.  Reals are exact fractions: saturation and value
   are multiples of 1/Levels, a hue is a whole number of degrees, and the
   result of gamma_correct is kept in units of 1/Frac. *)

MaxHue == 480       \* hues run from 360 - MaxHue to MaxHue degrees
Levels == 4         \* saturation and value are k/Levels, k in 0..Levels
Frac == 16          \* resolution of a gamma-corrected value: 1/Frac

MaxChannel == 255

\* exponents gamma = n/d, as <<n, d>>
Gammas == {<<1, 2>>, <<1, 1>>, <<2, 1>>, <<3, 1>>}

\* int(): truncation towards zero of the fraction n/d, d > 0
Trunc(n, d) == IF n >= 0 THEN n \div d ELSE -((-n) \div d)

\* the common denominator of the channels before scaling
Den == 60 * Levels * Levels

\* int(c * 255) for the channel c = num/Den
ToByte(num) == Trunc(MaxChannel * num, Den)

\* colorsys.hsv_to_rgb(h, s, v) for h = hd/360, s = sn/Levels, v = vn/Levels:
\* the three channels as numerators over Den
colorsys_hsv_to_rgb(hd, sn, vn) ==
    LET i == Trunc(hd, 60)                  \* int(h*6.0)
        f == hd - 60 * i                    \* (h*6.0 - i), in sixtieths
        v == 60 * Levels * vn
        p == 60 * vn * (Levels - sn)
        q == vn * (60 * Levels - sn * f)
        t == vn * (60 * Levels - sn * (60 - f))
    IN  IF sn = 0 THEN <<v, v, v>>
        ELSE CASE i % 6 = 0 -> <<v, t, p>>
               [] i % 6 = 1 -> <<q, v, p>>
               [] i % 6 = 2 -> <<p, v, t>>
               [] i % 6 = 3 -> <<p, q, v>>
               [] i % 6 = 4 -> <<t, p, v>>
               [] OTHER     -> <<v, p, q>>

\* CosmicLED.hsv_to_rgb(h, s, v)
hsv_to_rgb(hd, sn, vn) ==
    LET rgb == colorsys_hsv_to_rgb(hd, sn, vn)
    IN  <<ToByte(rgb[1]), ToByte(rgb[2]), ToByte(rgb[3])>>

Abs(n) == IF n >= 0 THEN n ELSE -n

\* mutant: the six branches on the hue as it comes, neither reduced modulo
\* 360 nor folded into a sector ("Original broken code")
naive_hsv_to_rgb(h, sn, vn) ==
    LET one == Den
        hue == h * Levels * Levels          \* h/60, over Den
        rgb == IF h < 60 THEN <<one, hue, 0>>
               ELSE IF h < 120 THEN <<2 * one - hue, one, 0>>
               ELSE IF h < 180 THEN <<0, one, hue - 2 * one>>
               ELSE IF h < 240 THEN <<0, 4 * one - hue, one>>
               ELSE IF h < 300 THEN <<hue - 4 * one, 0, one>>
               ELSE <<one, 0, 6 * one - hue>>
    IN  <<ToByte(rgb[1]), ToByte(rgb[2]), ToByte(rgb[3])>>

\* hsv_to_rgb(h, s, v) of test_color_math.py, h in degrees
fixed_hsv_to_rgb(h, sn, vn) ==
    LET hm == h % 360
        c == 60 * vn * sn
        x == vn * sn * (60 - Abs((hm % 120) - 60))
        m == 60 * vn * (Levels - sn)
        rgb == IF hm < 60 THEN <<c, x, 0>>
               ELSE IF hm < 120 THEN <<x, c, 0>>
               ELSE IF hm < 180 THEN <<0, c, x>>
               ELSE IF hm < 240 THEN <<0, x, c>>
               ELSE IF hm < 300 THEN <<x, 0, c>>
               ELSE <<c, 0, x>>
    IN  <<ToByte(rgb[1] + m), ToByte(rgb[2] + m), ToByte(rgb[3] + m)>>

RECURSIVE Power(_, _)
Power(b, e) == IF e = 0 THEN 1 ELSE b * Power(b, e - 1)

\* the largest k with k^d <= m
FixedRoot(d, m) ==
    IF d = 1 THEN m
    ELSE CHOOSE k \in 0..(MaxChannel * Frac) :
           Power(k, d) <= m /\ m < Power(k + 1, d)

\* 255 * pow(value / 255, n/d), in units of 1/Frac
ScaledPow(value, n, d) ==
    FixedRoot(d, IF d >= n
                   THEN Power(Frac, d) * Power(MaxChannel, d - n) * Power(value, n)
                   ELSE (Power(Frac, d) * Power(value, n))
                          \div Power(MaxChannel, n - d))

\* mutant: the curve is applied to the complement of the value
gamma_correct_of_complement(value, gamma) ==
    ScaledPow(MaxChannel - value, gamma[1], gamma[2])

\* CosmicLED.gamma_correct(value, gamma), gamma = <<n, d>>
gamma_correct(value, gamma) == ScaledPow(value, gamma[1], gamma[2])

NoCallPending == fcall.done = FALSE

\* line 88: the built-in pattern converts a hue
call_hsv_to_rgb ==
    /\ NoCallPending
    /\ \E hd \in 0..MaxHue, sn \in 0..Levels, vn \in 0..Levels :
         fcall' = [fn |-> "hsv_to_rgb", arg |-> <<hd, sn, vn>>,
                   res |-> hsv_to_rgb(hd, sn, vn), done |-> TRUE,
                   before |-> geom]
    /\ UNCHANGED <<geom, cache_for>>
    /\ UNCHANGED evars
    /\ UNCHANGED svars

\* test_color_math.py line 69
call_fixed_hsv_to_rgb ==
    /\ NoCallPending
    /\ \E h \in (360 - MaxHue)..MaxHue, sn \in 0..Levels, vn \in 0..Levels :
         fcall' = [fn |-> "fixed_hsv_to_rgb", arg |-> <<h, sn, vn>>,
                   res |-> fixed_hsv_to_rgb(h, sn, vn), done |-> TRUE,
                   before |-> geom]
    /\ UNCHANGED <<geom, cache_for>>
    /\ UNCHANGED evars
    /\ UNCHANGED svars

\* line 91: a channel is gamma corrected
call_gamma_correct ==
    /\ NoCallPending
    /\ \E value \in 0..MaxChannel, gamma \in Gammas :
         fcall' = [fn |-> "gamma_correct", arg |-> <<value, gamma[1], gamma[2]>>,
                   res |-> <<gamma_correct(value, gamma)>>, done |-> TRUE,
                   before |-> geom]
    /\ UNCHANGED <<geom, cache_for>>
    /\ UNCHANGED evars
    /\ UNCHANGED svars

\* the caller has taken the result
fn_return ==
    /\ fcall.done
    /\ fcall' = NoFn
    /\ UNCHANGED <<geom, cache_for>>
    /\ UNCHANGED evars
    /\ UNCHANGED svars

ColourNext ==
    \/ call_hsv_to_rgb \/ call_fixed_hsv_to_rgb \/ call_gamma_correct
    \/ fn_return

ColourSpec == Init /\ [][ColourNext]_vars

\* C19: hsv_to_rgb returns three integers, each in 0..255, for every hue of
\* the circle, the sector boundaries at the multiples of 60 degrees and the
\* hues beyond one turn included, and every saturation and value in [0, 1].
C19_HsvChannelsInRange ==
    fcall.fn \in {"hsv_to_rgb", "fixed_hsv_to_rgb"} =>
      /\ Len(fcall.res) = 3
      /\ \A k \in 1..3 : fcall.res[k] \in 0..255

\* a hue beyond one turn, on a sector boundary: 420 degrees is yellow
C19_Witness ==
    /\ fcall.fn = "fixed_hsv_to_rgb"
    /\ fcall.arg = <<420, Levels, Levels>>
    /\ fcall.res = <<255, 255, 0>>

\* C20: for a fixed gamma > 0 gamma_correct does not decrease from one
\* channel value to the next over 0..255 and stays within [0, 255];
\* gamma_correct(0) is 0 for every gamma and gamma_correct(255) is 255 for
\* gamma 1.
C20_GammaMonotoneInRange ==
    fcall.fn = "gamma_correct" =>
      LET value == fcall.arg[1]
          gamma == <<fcall.arg[2], fcall.arg[3]>>
      IN  /\ fcall.res[1] >= 0 /\ fcall.res[1] <= 255 * Frac
          /\ value < 255 => fcall.res[1] <= gamma_correct(value + 1, gamma)
          /\ value = 0 => fcall.res[1] = 0
          /\ value = 255 /\ gamma = <<1, 1>> => fcall.res[1] = 255 * Frac

C20_Witness ==
    /\ fcall.fn = "gamma_correct"
    /\ fcall.arg = <<128, 2, 1>>
    /\ fcall.res[1] \div Frac = 64

----------------------------------------------------------------------------
(* Gamma correction inside the render loop *)

\* C21: the gamma correction of a frame comes from one table, derived from
\* the gamma exponent in force for that frame: all pixels of a frame a
\* pattern has finished were corrected with the same exponent.
C21_OneGammaPerFrame ==
    [][(pc = "pattern" /\ pc' = "show") =>
         \A i, j \in DOMAIN pixels' : pixels'[i].gam = pixels'[j].gam]_vars

----------------------------------------------------------------------------
(* Palette interpolation of the Config object: Config.interpolate_palette,
   which the patterns of scripts/ call.  Positions are multiples of
   1/PosScale. *)

PosScale == 4       \* a position is k/PosScale

StopColours == {<<0, 0, 0>>, <<255, 0, 0>>, <<0, 128, 255>>}

\* valid palettes of two and of three stops: positions strictly increasing,
\* the first 0, the last 1
Palettes ==
    {<<[pos |-> 0, rgb |-> a], [pos |-> PosScale, rgb |-> b]>> :
        a \in StopColours, b \in StopColours} \cup
    {<<[pos |-> 0, rgb |-> ab[1]], [pos |-> m, rgb |-> c],
       [pos |-> PosScale, rgb |-> ab[2]]>> :
        ab \in StopColours \X StopColours, c \in StopColours,
        m \in 1..(PosScale - 1)}

\* positions handed to interpolate_palette: one unit on either side of
\* [0, 1] and beyond
Positions == (-PosScale)..(2 * PosScale)

Clamp(position) ==
    IF position < 0 THEN 0
    ELSE IF position > PosScale THEN PosScale ELSE position

\* int(a + (b - a) * num / den)
Lerp(a, b, num, den) == Trunc(a * den + (b - a) * num, den)

\* the first pair of stops that brackets the position p, 0 <= p <= 1
Segment(palette, p) ==
    CHOOSE k \in 1..(Len(palette) - 1) :
        /\ palette[k].pos <= p /\ p <= palette[k + 1].pos
        /\ \A j \in 1..(k - 1) : ~(palette[j].pos <= p /\ p <= palette[j + 1].pos)

ColourAt(palette, p) ==
    LET k == Segment(palette, p)
        lo == palette[k]
        hi == palette[k + 1]
    IN  [c \in 1..3 |->
           Lerp(lo.rgb[c], hi.rgb[c], p - lo.pos, hi.pos - lo.pos)]

\* mutant: a position outside [0, 1] wraps around instead of being clamped
interpolate_palette_wrapped(position, palette) ==
    ColourAt(palette, position % PosScale)

\* Config.interpolate_palette(position)
interpolate_palette(position, palette) ==
    ColourAt(palette, Clamp(position))

\* a pattern asks for the colour at a position of the palette
call_interpolate_palette ==
    /\ NoCallPending
    /\ \E position \in Positions, palette \in Palettes :
         fcall' = [fn |-> "interpolate_palette", arg |-> <<position, palette>>,
                   res |-> interpolate_palette(position, palette),
                   done |-> TRUE, before |-> geom]
    /\ UNCHANGED <<geom, cache_for>>
    /\ UNCHANGED evars
    /\ UNCHANGED svars

PaletteNext == call_interpolate_palette \/ fn_return

PaletteSpec == Init /\ [][PaletteNext]_vars

\* C22: for any valid palette interpolate_palette gives the colour of the
\* first stop at every position <= 0 and the colour of the last stop at every
\* position >= 1.
C22_PaletteClampsToEndpoints ==
    fcall.fn = "interpolate_palette" =>
      LET position == fcall.arg[1]
          palette == fcall.arg[2]
      IN  /\ position <= 0 => fcall.res = palette[1].rgb
          /\ position >= PosScale => fcall.res = palette[Len(palette)].rgb

\* beyond the last stop of a palette of three stops whose ends differ
C22_Witness ==
    /\ fcall.fn = "interpolate_palette"
    /\ fcall.arg[1] = PosScale + 1
    /\ Len(fcall.arg[2]) = 3
    /\ fcall.arg[2][1].rgb = <<255, 0, 0>>
    /\ fcall.res = <<0, 128, 255>>

----------------------------------------------------------------------------
(* CosmicLED.load_programs step by step: the built-in pattern, the test for
   the scripts directory, and one step for each entry of its listing *)

MaxFiles == 3       \* entries of the scripts directory

\* what a scripts directory may hold
Files == {"waves.py", "shimmer.py", "broken.py", "helper.py", "cosmic.py",
          "__init__.py", "notes.txt"}

\* line 59: filename.endswith('.py') and not filename.startswith('__')
IsModule(filename) == filename \in {"waves.py", "shimmer.py", "broken.py",
                                    "helper.py", "cosmic.py"}

\* line 60: filename[:-3]
ProgramName(filename) ==
    CASE filename = "waves.py" -> "waves"
      [] filename = "shimmer.py" -> "shimmer"
      [] filename = "broken.py" -> "broken"
      [] filename = "helper.py" -> "helper"
      [] filename = "cosmic.py" -> Fallback
      [] OTHER -> "none"

LoadResults == {"animate", "raises", "no_animate"}

\* lines 62-69: what executing the module does: it raises, or it loads and
\* has an animate attribute, or it loads without one
LoadResult(filename) ==
    CASE filename = "broken.py" -> "raises"
      [] filename = "helper.py" -> "no_animate"
      [] filename = "cosmic.py" -> scan.cosmic_py
      [] OTHER -> "animate"

\* self.programs[name] = pattern, by being who provides the pattern
Register(owner, name, by) ==
    [n \in DOMAIN owner \cup {name} |-> IF n = name THEN by ELSE owner[n]]

\* os.listdir: the entries in any order
Listings ==
    UNION {{l \in [1..n -> Files] : \A i, j \in 1..n : i # j => l[i] # l[j]} :
             n \in 0..MaxFiles}

\* what a step of load_programs leaves alone
disc_rest == <<config, running, current_program, stats, pixels, brightness,
               sink, active, px, frame, frame_times, sleep_time, exc, ctl,
               upd, call, ncalls, stop_at, led_range, geom, cache_for, fcall,
               sw, mig>>

\* mutant: the built-in pattern is not registered
register_builtin_skipped ==
    /\ pc = "load_programs"
    /\ scan.at = "builtin"
    /\ scan' = [scan EXCEPT !.at = "exists"]
    /\ UNCHANGED <<programs, pc>>
    /\ UNCHANGED disc_rest

\* line 54
register_builtin ==
    /\ pc = "load_programs"
    /\ scan.at = "builtin"
    /\ programs' = programs \cup {Fallback}
    /\ scan' = [scan EXCEPT !.at = "exists",
                            !.owner = Register(@, Fallback, "builtin")]
    /\ UNCHANGED pc
    /\ UNCHANGED disc_rest

\* line 57: there is no scripts directory; load_programs returns
scripts_dir_absent ==
    /\ pc = "load_programs"
    /\ scan.at = "exists"
    /\ scan' = [scan EXCEPT !.at = "done"]
    /\ pc' = "start_stats"
    /\ UNCHANGED programs
    /\ UNCHANGED disc_rest

\* lines 57-58: the directory exists and is listed
listdir ==
    /\ pc = "load_programs"
    /\ scan.at = "exists"
    /\ \E listing \in Listings, cosmic_py \in LoadResults :
         /\ (\A i \in DOMAIN listing : listing[i] # "cosmic.py") =>
              cosmic_py = "animate"
         /\ scan' = [scan EXCEPT !.at = "scan", !.listing = listing,
                                 !.todo = listing, !.cosmic_py = cosmic_py]
    /\ UNCHANGED <<programs, pc>>
    /\ UNCHANGED disc_rest

\* mutant: the exception of a module that fails to load is not caught and
\* ends the scan
load_module_aborts ==
    /\ pc = "load_programs"
    /\ scan.at = "scan"
    /\ scan.todo # <<>>
    /\ LET filename == Head(scan.todo)
       IN  IF IsModule(filename) /\ LoadResult(filename) = "raises"
             THEN /\ scan' = [scan EXCEPT !.at = "done"]
                  /\ pc' = "start_stats"
                  /\ UNCHANGED programs
             ELSE /\ IF IsModule(filename) /\ LoadResult(filename) = "animate"
                       THEN /\ programs' = programs \cup {ProgramName(filename)}
                            /\ scan' = [scan EXCEPT
                                          !.todo = Tail(scan.todo),
                                          !.owner = Register(@,
                                              ProgramName(filename), filename)]
                       ELSE /\ programs' = programs
                            /\ scan' = [scan EXCEPT !.todo = Tail(scan.todo)]
                  /\ UNCHANGED pc
    /\ UNCHANGED disc_rest

\* mutant: a key that is registered already is kept as it is
load_module_keeps_first ==
    /\ pc = "load_programs"
    /\ scan.at = "scan"
    /\ scan.todo # <<>>
    /\ LET filename == Head(scan.todo)
       IN  IF /\ IsModule(filename) /\ LoadResult(filename) = "animate"
              /\ ProgramName(filename) \notin programs
             THEN /\ programs' = programs \cup {ProgramName(filename)}
                  /\ scan' = [scan EXCEPT
                                !.todo = Tail(scan.todo),
                                !.owner = Register(@, ProgramName(filename),
                                                   filename)]
             ELSE /\ programs' = programs
                  /\ scan' = [scan EXCEPT !.todo = Tail(scan.todo)]
    /\ UNCHANGED pc
    /\ UNCHANGED disc_rest

\* lines 58-73 for one entry: the filter, the load inside try, the
\* registration of animate, the except clause that prints and goes on
load_module ==
    /\ pc = "load_programs"
    /\ scan.at = "scan"
    /\ scan.todo # <<>>
    /\ LET filename == Head(scan.todo)
       IN  IF IsModule(filename) /\ LoadResult(filename) = "animate"
             THEN /\ programs' = programs \cup {ProgramName(filename)}
                  /\ scan' = [scan EXCEPT
                                !.todo = Tail(scan.todo),
                                !.owner = Register(@, ProgramName(filename),
                                                   filename)]
             ELSE /\ programs' = programs
                  /\ scan' = [scan EXCEPT !.todo = Tail(scan.todo)]
    /\ UNCHANGED pc
    /\ UNCHANGED disc_rest

\* the listing is exhausted; load_programs returns
scan_done ==
    /\ pc = "load_programs"
    /\ scan.at = "scan"
    /\ scan.todo = <<>>
    /\ scan' = [scan EXCEPT !.at = "done"]
    /\ pc' = "start_stats"
    /\ UNCHANGED programs
    /\ UNCHANGED disc_rest

DiscoveryNext ==
    \/ register_builtin \/ scripts_dir_absent \/ listdir
    \/ load_module \/ scan_done

DiscoverySpec == Init /\ [][DiscoveryNext]_vars

Listed == {scan.listing[i] : i \in DOMAIN scan.listing}

\* the entries the scan has dealt with
Scanned ==
    {scan.listing[i] : i \in 1..(Len(scan.listing) - Len(scan.todo))}

----------------------------------------------------------------------------
(* switch_program *)

\* the web thread enters switch_program
SwitchCalled == ncalls' = ncalls + 1 /\ call'.op = "switch_program"

\* the web thread returns True from switch_program
SwitchReturnsTrue == ctl = "switch_stats" /\ ctl' = "idle"

\* C25: switch_program(name) returns True and makes name the active pattern
\* exactly when name is registered; for a name that is not it returns False
\* and leaves the active pattern and the reported current_program as they
\* are.
C25_SwitchExactlyWhenRegistered ==
    [][/\ SwitchCalled =>
            IF call'.name \in programs
              THEN /\ current_program' = call'.name
                   /\ ctl' = "switch_stats"
                   /\ call'.ret # "False"
              ELSE /\ call'.ret = "False"
                   /\ ctl' = "idle"
                   /\ current_program' = current_program
                   /\ stats' = stats
       /\ SwitchReturnsTrue =>
            /\ call'.ret = "True"
            /\ call.name \in programs
            /\ current_program' = call.name
            /\ stats'.current_program = call.name
       /\ (call'.ret = "True" /\ call.ret # "True") => SwitchReturnsTrue]_vars

C25_Witness ==
    /\ call.op = "switch_program"
    /\ call.ret = "True"
    /\ call.prev = Fallback
    /\ current_program = "waves"
    /\ stats.current_program = "waves"

\* C26: a successful switch_program made while the loop runs does not stop
\* it: the switch changes neither the place of the main thread nor the
\* running flag nor the frame index, the frame index never goes back, and an
\* iteration that looks the pattern up after the switch invokes the new one.
C26_SwitchTakesEffectWithoutStop ==
    [][/\ (pc = "invoke" /\ pc' = "pattern" /\ call.op = "switch_program"
             /\ call.name \in programs) => active' = call.name
       /\ (SwitchCalled \/ SwitchReturnsTrue) =>
            UNCHANGED <<pc, running, frame, exc>>
       /\ frame' >= frame]_vars

\* the second iteration paints with the new pattern over a frame of the old
C26_Witness ==
    /\ pc = "pattern"
    /\ running
    /\ frame = 1
    /\ px = 1
    /\ active = "waves"
    /\ pixels[1].by = "waves"
    /\ pixels[LedCount].by = Fallback
    /\ call.op = "switch_program" /\ call.ret = "True"

----------------------------------------------------------------------------
(* the stats record *)

\* a step of the main thread: the web thread and the stats writer stay put
MainThreadStep == ctl' = ctl /\ call' = call /\ ncalls' = ncalls /\ sw' = sw

\* C27: every write to the stats record is made by the render thread; the
\* stats writer and the control calls only read it.
C27_OnlyRenderThreadWritesStats ==
    [][stats' # stats => MainThreadStep]_vars

----------------------------------------------------------------------------
(* CosmicLED.stats_writer, the daemon thread started by __init__ *)

\* what a step of the stats writer leaves alone, stats apart
writer_rest == <<config, running, current_program, programs, pixels,
                 brightness, sink, pc, active, px, led_range, frame,
                 frame_times, sleep_time, exc, ctl, upd, call, ncalls,
                 stop_at, geom, cache_for, fcall, scan, mig>>

\* a daemon thread runs from its start until the process exits
WriterAlive == sw.at # "unborn" /\ pc # "done"

\* line 108: while self.running
stats_test ==
    /\ WriterAlive
    /\ sw.at = "test"
    /\ IF running
         THEN /\ sw.first \/ stats.uptime < MaxUptime
              /\ sw' = [sw EXCEPT !.at = "uptime"]
         ELSE sw' = [sw EXCEPT !.at = "exited"]
    /\ UNCHANGED stats
    /\ UNCHANGED writer_rest

\* line 109: the whole seconds since the thread started; every later
\* iteration comes after a sleep of one second
stats_uptime ==
    /\ WriterAlive
    /\ sw.at = "uptime"
    /\ \E seconds \in 0..MaxUptime :
         /\ seconds >= (IF sw.first THEN 0 ELSE stats.uptime + 1)
         /\ stats' = [stats EXCEPT !.uptime = seconds]
    /\ sw' = [sw EXCEPT !.at = "last_update", !.first = FALSE]
    /\ UNCHANGED writer_rest

\* line 110: the time of day, here in seconds since the thread started
stats_last_update ==
    /\ WriterAlive
    /\ sw.at = "last_update"
    /\ stats' = [stats EXCEPT !.last_update = stats.uptime]
    /\ sw' = [sw EXCEPT !.at = "open"]
    /\ UNCHANGED writer_rest

\* line 113: open(..., 'w') truncates the file
stats_open ==
    /\ WriterAlive
    /\ sw.at = "open"
    /\ sw' = [sw EXCEPT !.at = "dump", !.file = <<>>]
    /\ UNCHANGED stats
    /\ UNCHANGED writer_rest

\* line 113: open raises
stats_open_fails ==
    /\ WriterAlive
    /\ sw.at = "open"
    /\ sw' = [sw EXCEPT !.at = "print"]
    /\ UNCHANGED stats
    /\ UNCHANGED writer_rest

\* line 114: json.dump(self.stats, f), taken as one read of the record
stats_dump ==
    /\ WriterAlive
    /\ sw.at = "dump"
    /\ sw' = [sw EXCEPT !.at = "sleep", !.file = <<stats>>]
    /\ UNCHANGED stats
    /\ UNCHANGED writer_rest

\* line 114: json.dump raises
stats_dump_fails ==
    /\ WriterAlive
    /\ sw.at = "dump"
    /\ sw' = [sw EXCEPT !.at = "print"]
    /\ UNCHANGED stats
    /\ UNCHANGED writer_rest

\* lines 115-116: the exception is printed
stats_print ==
    /\ WriterAlive
    /\ sw.at = "print"
    /\ sw' = [sw EXCEPT !.at = "sleep"]
    /\ UNCHANGED stats
    /\ UNCHANGED writer_rest

\* line 118: time.sleep(1)
stats_sleep ==
    /\ WriterAlive
    /\ sw.at = "sleep"
    /\ sw' = [sw EXCEPT !.at = "test"]
    /\ UNCHANGED stats
    /\ UNCHANGED writer_rest

stats_writer ==
    \/ stats_test \/ stats_uptime \/ stats_last_update \/ stats_open
    \/ stats_dump \/ stats_print \/ stats_sleep

WriterFaults == stats_open_fails \/ stats_dump_fails

\* the threads that write the stats record: the main thread, the stats
\* writer, and the web thread in switch_program
StatsNext ==
    \/ Render \/ Faults \/ Signals
    \/ stats_writer \/ WriterFaults
    \/ switch_program \/ switch_stats

StatsSpec == Init /\ [][StatsNext]_vars

\* the loop has stopped at the bound of the model, not in the program
AtFrameBound == pc = "loop" /\ running /\ frame >= MaxFrames

\* C28: the stats writer can never block the render loop: whenever the
\* main thread is Running and not in its frame-limiting sleep, its next step
\* is enabled wherever the stats writer is, in the middle of a write or
\* after a failed one.
C28_WriterNeverBlocksRender ==
    (sw.at # "unborn" /\ pc \in LoopPcs \ {"sleep"} /\ ~AtFrameBound)
        => ENABLED Render

\* a frame is about to be committed while the stats file is open and empty
C28_Witness ==
    /\ pc = "show"
    /\ frame = 1
    /\ sw.at = "dump"
    /\ sw.file = <<>>
    /\ stats.uptime = 1

----------------------------------------------------------------------------
(* the frame counter and the pacing of the loop *)

\* the main thread takes the step from line 157 to line 176
IterationTimed == pc = "timing" /\ pc' \in {"sleep", "loop"}

\* C29: the reported frame_count is the number of frames rendered: when N
\* iterations have completed, frame_count is N.
C29_FrameCountIsFramesRendered ==
    [][IterationTimed => stats'.frame_count = frame']_vars

\* frame_time of the iteration that was just timed
LastFrameTime == frame_times[Len(frame_times)]

\* the time the loop then sleeps for
Slept == IF pc = "sleep" THEN sleep_time ELSE 0

MaxOf(a, b) == IF a >= b THEN a ELSE b

MinOf(a, b) == IF a <= b THEN a ELSE b

\* C30: the loop sleeps max(0, target - elapsed) after each iteration: an
\* iteration that took less than the target interval is followed by a sleep
\* that fills the interval, so that the next one starts no sooner than a
\* target interval after it; one that took as long or longer is followed by
\* no sleep, and the loop never sleeps for a time that is not positive.
C30_SleepFillsTargetInterval ==
    /\ [][IterationTimed =>
            /\ Slept' = MaxOf(0, TargetFrameTicks - LastFrameTime')
            /\ LastFrameTime' < TargetFrameTicks =>
                 (pc' = "sleep" /\ LastFrameTime' + Slept' >= TargetFrameTicks)
            /\ LastFrameTime' >= TargetFrameTicks => pc' = "loop"]_vars
    /\ [](pc = "sleep" => sleep_time > 0)
    /\ [][(pc = "sleep" /\ pc' = "loop") =>
            LastFrameTime + sleep_time >= TargetFrameTicks]_vars

\* a short iteration is asleep, after a long one that was not
C30_Witness ==
    /\ pc = "sleep"
    /\ frame = 2
    /\ frame_times = <<3, 1>>
    /\ sleep_time = 1

----------------------------------------------------------------------------
(* the frame-time window and the fps statistic, lines 157-170 of run() *)

\* frame times over the target among those seen
SlowFrames(h) == Cardinality({i \in DOMAIN h : h[i] >= TargetFrameTicks})

\* lines 157-170 applied to one more measured frame time; fcall.arg keeps
\* every frame time in arrival order, fcall.res whether the fps was updated
frame_timed ==
    /\ fcall.fn \in {"none", "frame_time"}
    /\ Len(fcall.arg) < MaxArrivals
    /\ \E ft \in FrameTicks, second \in BOOLEAN :
         /\ ft >= TargetFrameTicks => SlowFrames(fcall.arg) < MaxSlow
         /\ frame_times' = Window(Append(frame_times, ft))
         /\ stats' = [stats EXCEPT
                        !.fps = IF second THEN Fps(frame_times') ELSE @,
                        !.frame_count = frame]
         /\ fcall' = [fcall EXCEPT !.fn = "frame_time",
                        !.arg = Append(@, ft), !.res = second]
    /\ frame' = frame + 1
    /\ UNCHANGED <<config, running, current_program, programs, pixels,
                   brightness, sink, pc, active, px, led_range, sleep_time,
                   exc, ctl, upd, call, ncalls, stop_at, geom, cache_for>>
    /\ UNCHANGED svars

FpsNext == frame_timed

FpsSpec == Init /\ [][FpsNext]_vars

\* the loop is paced at the target rate: every frame time in the window is
\* under the target interval, so every iteration is stretched to it
PacedAtTarget == \A i \in DOMAIN frame_times : frame_times[i] < TargetFrameTicks

\* C31: at a 60 Hz target with a pattern that costs next to nothing, the
\* fps statistic is approximately 60 once the window is full: it reflects
\* the frame rate with the frame-limiting sleep counted in.
C31_FpsNearTargetWhenPaced ==
    (/\ fcall.fn = "frame_time"
     /\ fcall.res = TRUE
     /\ Len(frame_times) = FpsWindow
     /\ PacedAtTarget)
        => Abs(stats.fps - TargetFps) <= FpsTolerance

\* the last n frame times of a history
Recent(h, n) == SubSeq(h, Len(h) - n + 1, Len(h))

\* C35: the frame-time window never holds more than 30 entries, and it
\* holds the most recent frame times, 30 of them once so many have arrived,
\* in arrival order.
C35_WindowIsMostRecent ==
    fcall.fn = "frame_time" =>
        /\ Len(frame_times) <= FpsWindow
        /\ frame_times = Recent(fcall.arg, MinOf(Len(fcall.arg), FpsWindow))

\* a slow first frame has left the window, a slow last one is at its end
C35_Witness ==
    /\ fcall.fn = "frame_time"
    /\ Len(fcall.arg) = FpsWindow + 2
    /\ fcall.arg[1] = 3
    /\ Len(frame_times) = FpsWindow
    /\ frame_times[1] = 1
    /\ frame_times[FpsWindow] = 3

----------------------------------------------------------------------------
(* scripts/migrate_to_hub75.py: migrate_config *)

\* lines 44-64: the record that is added
Hub75Defaults ==
    [rows |-> 64, cols |-> 64, chain_length |-> 1, parallel |-> 1,
     pwm_bits |-> 11, pwm_lsb_nanoseconds |-> 130, gpio_slowdown |-> 4,
     limit_refresh |-> 0, hardware_mapping |-> "adafruit-hat",
     pixel_mapper |-> "", panel_type |-> "", multiplexing |-> 0,
     row_address_type |-> 0, disable_hardware_pulsing |-> FALSE,
     show_refresh_rate |-> FALSE, inverse_colors |-> FALSE,
     led_rgb_sequence |-> "RGB", scan_mode |-> 0, drop_privileges |-> TRUE]

\* a hub75_settings record an operator wrote by hand
Hub75Custom == [rows |-> 32, cols |-> 32]

\* the members a settings file may hold, each with the values it may have
SettingsKeys ==
    {"matrix_width", "brightness", "current_program", "matrix_type",
     "hub75_settings"}

FullSettings ==
    [matrix_width : {10}, brightness : {5}, current_program : {"rainbow"},
     matrix_type : MatrixTypes, hub75_settings : {Hub75Defaults, Hub75Custom}]

\* every JSON object with some of these members
Mappings ==
    {[k \in K |-> full[k]] : full \in FullSettings, K \in SUBSET SettingsKeys}

MappingFile(m) == [kind |-> "mapping", obj |-> m, has |-> FALSE]

\* JSON text that is not an object; has: what 'hub75_settings' in value gives
\* (an element of the list, a part of the string)
OtherKinds == {"list", "string", "number"}

\* config[key] = value on a dict
Put(m, key, value) ==
    [k \in DOMAIN m \cup {key} |-> IF k = key THEN value ELSE m[k]]

\* mutant of migrate_mapping: matrix_type is set whether or not it is there
migrate_mapping_resets_type(settings) ==
    Put(Put(settings, "hub75_settings", Hub75Defaults), "matrix_type", "WS2811")

\* lines 44-68 on a dict without hub75_settings
migrate_mapping(settings) ==
    LET added == Put(settings, "hub75_settings", Hub75Defaults)
    IN  IF "matrix_type" \notin DOMAIN added
          THEN Put(added, "matrix_type", "WS2811")
          ELSE added

\* lines 27-79: the file afterwards and the value returned, the file being
\* writable
migrate_config(f) ==
    CASE f.kind = "garbage" ->                    \* json.load raises
           [file |-> f, ret |-> "False"]
      [] f.kind = "number" ->                     \* 'in' raises TypeError
           [file |-> f, ret |-> "False"]
      [] f.kind \in {"list", "string"} ->
           IF f.has
             THEN [file |-> f, ret |-> "True"]    \* lines 39-41
             ELSE [file |-> f, ret |-> "False"]   \* line 44 raises TypeError
      [] f.kind \in {"absent", "mapping"} ->
           IF "hub75_settings" \in DOMAIN f.obj
             THEN [file |-> f, ret |-> "True"]    \* lines 39-41
             ELSE [file |-> MappingFile(migrate_mapping(f.obj)),
                   ret |-> "True"]

\* the settings file as somebody has written it since the last call
Written(f) == [NoMigration EXCEPT !.file = f]

\* somebody writes a settings file, or removes it
write_settings ==
    /\ \/ \E m \in Mappings : mig' = Written(MappingFile(m))
       \/ \E k \in OtherKinds, h \in BOOLEAN :
            /\ k = "number" => ~h
            /\ mig' = Written([kind |-> k, obj |-> EmptyMapping, has |-> h])
       \/ mig' = Written([kind |-> "garbage", obj |-> EmptyMapping,
                          has |-> FALSE])
       \/ mig' = Written(AbsentFile)
    /\ mig'.file # mig.file
    /\ UNCHANGED evars
    /\ UNCHANGED <<geom, cache_for, fcall, scan, sw>>

\* lines 27-79: migrate_config(config_path)
call_migrate_config ==
    /\ mig' = [file |-> migrate_config(mig.file).file, before |-> mig.file,
               ret |-> migrate_config(mig.file).ret]
    /\ UNCHANGED evars
    /\ UNCHANGED <<geom, cache_for, fcall, scan, sw>>

\* line 71: open(config_path, 'w') raises, the file is as it was
migrate_config_open_fails ==
    /\ migrate_config(mig.file).file # mig.file
    /\ mig' = [file |-> mig.file, before |-> mig.file, ret |-> "False"]
    /\ UNCHANGED evars
    /\ UNCHANGED <<geom, cache_for, fcall, scan, sw>>

MigrateNext ==
    write_settings \/ call_migrate_config \/ migrate_config_open_fails

MigrateSpec == Init /\ [][MigrateNext]_vars

\* the file holds a JSON object with this member
HasMember(f, key) == f.kind = "mapping" /\ key \in DOMAIN f.obj

\* C32: once migrate_config has returned True, whatever the file held, the
\* file holds a hub75_settings record and a matrix_type member; a record
\* that was added has 64 rows and 64 columns, a matrix_type that was added
\* is WS2811.
C32_MigratedFileHasBoth ==
    mig.ret = "True" =>
        /\ HasMember(mig.file, "hub75_settings")
        /\ HasMember(mig.file, "matrix_type")
        /\ ~HasMember(mig.before, "hub75_settings") =>
             /\ mig.file.obj["hub75_settings"].rows = 64
             /\ mig.file.obj["hub75_settings"].cols = 64
        /\ ~HasMember(mig.before, "matrix_type") =>
             mig.file.obj["matrix_type"] = "WS2811"

\* every member the first file holds is in the second with the same value
Preserves(old, new) ==
    old.kind = "mapping" =>
        /\ new.kind = "mapping"
        /\ \A k \in DOMAIN old.obj :
             k \in DOMAIN new.obj /\ new.obj[k] = old.obj[k]

----------------------------------------------------------------------------
(* the order of an iteration of run() *)

\* the main thread comes to this place from another
Arrives(place) == pc' = place /\ pc # place

\* C33: in each iteration of the running loop the pattern is invoked at
\* most once and before the commit, the buffer is committed once, the
\* timing statistics are updated only after that commit, and the frame
\* index handed to the pattern grows by exactly 1 from one iteration to the
\* next.
C33_IterationOrder ==
    [][/\ Arrives("invoke") => pc = "loop"
       /\ Arrives("pattern") => pc = "invoke"
       /\ Arrives("show") => pc \in {"invoke", "pattern"}
       /\ (sink' # sink /\ pc \in LoopPcs) => (pc = "show" /\ pc' = "timing")
       /\ Arrives("timing") =>
            (pc = "show" /\ sink'.last = FrameKind(pixels))
       /\ (stats'.fps # stats.fps \/ stats'.frame_count # stats.frame_count
              \/ frame_times' # frame_times) =>
            (pc = "timing" \/ (pc = "run" /\ frame_times' = <<>>))
       /\ Arrives("loop") => pc \in {"run", "timing", "sleep"}
       /\ Arrives("sleep") => pc = "timing"
       /\ frame' # frame =>
            \/ pc = "run" /\ frame' = 0
            \/ IterationTimed /\ frame' = frame + 1]_vars

\* the frame of the second iteration is committed and not yet timed
C33_Witness ==
    /\ pc = "timing"
    /\ frame = 1
    /\ px = LedCount
    /\ active = Fallback
    /\ sink.last = "lit"
    /\ stats.frame_count = 0
    /\ Len(frame_times) = 1

----------------------------------------------------------------------------
(* patterns and the bounds of the buffer *)

\* the built-in pattern is about to write pixels[px] beyond the buffer
OutsideBuffer ==
    pc = "pattern" /\ active = Fallback /\ px < led_range /\ px >= Len(pixels)

\* C34: no pattern writes outside the buffer and none raises on an index
\* that is outside it: such a pixel is skipped, also when the configured
\* LED count differs from the length of the buffer.
C34_PatternSkipsOutsideBuffer ==
    [][OutsideBuffer => ~PatternRaises]_vars

----------------------------------------------------------------------------
(* scripts/shimmer.py: animate *)

\* random.random(), in tenths
RandomTenths == {0, 5}

\* the configurations a pattern is invoked with; SPEED and INTENSITY are 1
PatternConfigs ==
    {[InitConfig EXCEPT !.BRIGHTNESS = b, !.GAMMA = g] :
        b \in FieldValues, g \in FieldValues}

\* lines 30-32: int(255 * pow(r / 255, GAMMA)) for a whole GAMMA
GammaByte(r, gamma) == Trunc(MaxChannel * Power(r, gamma), Power(MaxChannel, gamma))

\* lines 16-32 for the channel c of base_color at pixel i, shimmer being
\* rnd/10.  wave is (sin(a) + 1) / 2 for a = frame * 0.05 + i * 0.1, with
\* sin(a) taken as a, the angles here being small: in 1/200.  brightness is
\* (shimmer * 0.7 + wave * 0.3), in 1/2000.
ShimmerChannel(c, rnd, cfg, frame_index, i) ==
    LET wave == 100 + 5 * frame_index + 10 * i
        shimmer_brightness == 140 * rnd + 3 * wave
    IN  GammaByte(Trunc(c * shimmer_brightness * cfg.BRIGHTNESS, 2000),
                  cfg.GAMMA)

\* lines 8-34: the buffer after animate(pixels, config, frame), draws[i]
\* being what random.random() gave for pixel i - 1
shimmer(buf, cfg, frame_index, base_color, draws) ==
    [n \in DOMAIN buf |->
        IF n <= cfg.LED_COUNT
          THEN [c \in 1..3 |->
                  ShimmerChannel(base_color[c], draws[n], cfg, frame_index,
                                 n - 1)]
          ELSE buf[n]]

\* what the buffer may hold before a call
BuffersBefore ==
    {[n \in 1..LedCount |-> rgb] : rgb \in {<<0, 0, 0>>, <<255, 255, 255>>}}

Draws == [1..LedCount -> RandomTenths]

\* the pattern is invoked
animate_shimmer ==
    /\ fcall.fn = "none"
    /\ \E cfg \in PatternConfigs, frame_index \in 0..MaxFrames,
          base_color \in StopColours, buf \in BuffersBefore, draws \in Draws :
         fcall' = [fn |-> "shimmer",
                   arg |-> [cfg |-> cfg, frame |-> frame_index,
                            base |-> base_color],
                   res |-> <<shimmer(buf, cfg, frame_index, base_color, draws)>>,
                   done |-> FALSE, before |-> geom]
    /\ UNCHANGED <<geom, cache_for>>
    /\ UNCHANGED evars
    /\ UNCHANGED svars

\* it is invoked again with the same configuration and frame index, the
\* buffer holding whatever it holds
animate_shimmer_again ==
    /\ fcall.fn = "shimmer"
    /\ ~fcall.done
    /\ \E buf \in BuffersBefore, draws \in Draws :
         fcall' = [fcall EXCEPT
                     !.res = Append(@, shimmer(buf, fcall.arg.cfg,
                                               fcall.arg.frame,
                                               fcall.arg.base, draws)),
                     !.done = TRUE]
    /\ UNCHANGED <<geom, cache_for>>
    /\ UNCHANGED evars
    /\ UNCHANGED svars

PatternNext == animate_shimmer \/ animate_shimmer_again \/ fn_return

PatternSpec == Init /\ [][PatternNext]_vars

\* C36: every pattern is stateless per call: two invocations with the same
\* configuration and the same frame index leave equal buffers, whatever the
\* buffer held before and whatever was called before.
C36_EqualArgumentsEqualBuffers ==
    (fcall.fn = "shimmer" /\ fcall.done) => fcall.res[1] = fcall.res[2]

----------------------------------------------------------------------------
(* the active pattern and the registry *)

----------------------------------------------------------------------------
(* the exits of run() *)

\* run() returns or propagates
RunExits == pc' = "done" /\ pc # "done"

\* C38: every exit from run() goes through cleanup: run() never returns or
\* propagates without the finally clause, and with it cleanup, having been
\* entered.
C38_NoExitWithoutCleanup ==
    [][RunExits => pc \in CleanupPcs]_vars

----------------------------------------------------------------------------
(* the order of registration in load_programs *)

\* load_programs deals with the next entry of the listing
EntryScanned == scan.at = "scan" /\ scan'.at = "scan" /\ scan'.todo # scan.todo

\* C39: registration is last-writer-wins with the built-in pattern
\* registered first: a scripts/cosmic.py that loads and has animate takes
\* the place of the built-in pattern under the name cosmic, and a module
\* that fails to load or has no animate leaves the registry as it is.
C39_LastWriterWins ==
    /\ [](scan.at # "builtin" => DOMAIN scan.owner = programs)
    /\ [](scan.at = "exists" => scan.owner[Fallback] = "builtin")
    /\ [][EntryScanned =>
            LET filename == Head(scan.todo)
            IN  IF IsModule(filename) /\ LoadResult(filename) = "animate"
                  THEN /\ programs' = programs \cup {ProgramName(filename)}
                       /\ scan'.owner[ProgramName(filename)] = filename
                       /\ \A n \in programs \ {ProgramName(filename)} :
                            scan'.owner[n] = scan.owner[n]
                  ELSE /\ programs' = programs
                       /\ scan'.owner = scan.owner]_vars
    /\ [](scan.at = "done" =>
            scan.owner[Fallback] =
                IF "cosmic.py" \in Listed /\ scan.cosmic_py = "animate"
                  THEN "cosmic.py" ELSE "builtin")

\* the directory holds a cosmic.py that loads: it has replaced the built-in
C39_Witness ==
    /\ scan.at = "done"
    /\ scan.listing = <<"helper.py", "cosmic.py">>
    /\ scan.cosmic_py = "animate"
    /\ programs = {Fallback}
    /\ scan.owner[Fallback] = "cosmic.py"


====
